---- MODULE Spec2Model ----
(***************************************************************************)
(* Account backend (src/main.py): signup, login and bearer-token identity  *)
(* resolution over one "account" collection.                               *)
(*                                                                         *)
(* Requests are served concurrently by the workers of the serving runtime. *)
(* login and /auth/me perform one store read each and are one step; signup *)
(* performs a store read (the existence check) and later a store insert,   *)
(* with nothing held in between, and is two steps.                         *)
(*                                                                         *)
(* Time is the wall clock in whole seconds, the resolution at which the    *)
(* token library writes and compares the "exp" claim.                      *)
(***************************************************************************)
EXTENDS Naturals, Integers, Sequences, FiniteSets, TLC

(* ------------------------------ bounds -------------------------------- *)

\* Tokens handed out by login that clients still hold.
MaxTokens == 1

(* --------------------------- program constants ------------------------ *)

SECRET_KEY == "dev-secret-key-change"

ALGORITHM == "HS256"

ACCESS_TOKEN_EXPIRE_MINUTES == 1440

\* timedelta(minutes=ACCESS_TOKEN_EXPIRE_MINUTES), in seconds.
TokenTTL == ACCESS_TOKEN_EXPIRE_MINUTES * 60

\* Python's None: an absent dict key read with .get(), an unset Optional.
None == "None"

\* The store handle imported from the database module (connected).
db == "brewhaven"

\* os.getenv("DATABASE_URL"), set in a deployment that reaches the store.
DATABASE_URL == "mongodb://store"

(* ------------------------------ input sets ---------------------------- *)

Workers == {"w1", "w2"}

\* Well-formed addresses as clients type them; one has an upper-case domain.
Emails == {"ann@x.com", "ann@X.COM", "bob@x.com"}

Passwords == {"pw123", "hunter2"}

\* Clock readings at which requests arrive: service start, then the expiry
\* second of a token issued at start, then the second after it.
Instants == {0, TokenTTL, TokenTTL + 1}

\* A signing key other than the server's.
OtherKey == "other-key"

(* ------------------------------- schemas ------------------------------ *)

\* EmailStr: validation returns the address with its domain part lowered.
EmailStr(e) == IF e = "ann@X.COM" THEN "ann@x.com" ELSE e

\* SignUpBody: the parsed request body; email goes through EmailStr.
SignUpBody(raw) ==
    [name |-> raw.name, email |-> EmailStr(raw.email), password |-> raw.password]

\* Signup requests clients send: two of them name the same mailbox, one with
\* the domain in upper case, under different names and passwords.
SignUpRequests ==
    {[name |-> "Ann", email |-> "ann@x.com", password |-> "pw123"],
     [name |-> "Bob", email |-> "ann@X.COM", password |-> "hunter2"],
     [name |-> "Bob", email |-> "bob@x.com", password |-> "pw123"]}

\* Account: the persisted document, with the schema's defaults.
Account(name, email, password_hash) ==
    [name |-> name, email |-> email, password_hash |-> password_hash,
     avatar_url |-> None, is_active |-> TRUE]

\* UserPublic: the response model carries exactly id, name and email.
UserPublic(id, name, email) ==
    [id |-> id, name |-> name, email |-> EmailStr(email)]

\* Token: the login response model.
Token(access_token) ==
    [access_token |-> access_token, token_type |-> "bearer"]

\* str() of a store identifier.
Str(oid) == ToString(oid)

NoBody == [empty |-> TRUE]

(* --------------------------- credential hasher ------------------------ *)

\* The salt the hasher draws on its n-th call: random 128 bits, never the
\* same twice.
FreshSalt(n) == "salt" \o ToString(n)

\* bcrypt's digest of a password under a salt: one value per (salt, password).
Crypt(salt, password) == "bcrypt(" \o salt \o "," \o password \o ")"

\* pwd_context.hash with the salt it drew: the digest string embeds the salt.
get_password_hash(password, salt) ==
    [scheme |-> "bcrypt", salt |-> salt, digest |-> Crypt(salt, password)]

\* pwd_context.verify: recompute under the embedded salt and compare.
verify_password(plain, password_hash) ==
    Crypt(password_hash.salt, plain) = password_hash.digest

(* ------------------------------ token codec --------------------------- *)

\* jwt.encode: the claims, signed under key with the header's algorithm; exp
\* is written in whole seconds.
JwtEncode(claims, key, algorithm) ==
    [wf |-> TRUE, alg |-> algorithm, key |-> key, claims |-> claims]

\* What a client may present that is not a compact JWT at all.
Malformed == [wf |-> FALSE, alg |-> None, key |-> None,
              claims |-> [sub |-> None, name |-> None, uid |-> None, exp |-> 0]]

\* jwt.decode raises JWTError: the string is no JWT, its algorithm is not
\* among the allowed ones, its signature does not verify under key, or its
\* exp lies before the clock reading (the library tests exp < now).
JwtDecodeFails(token, key, algorithms, t) ==
    \/ ~token.wf
    \/ token.alg \notin algorithms
    \/ token.key # key
    \/ token.claims.exp < t

\* create_access_token at clock reading t.
create_access_token(data, t) ==
    JwtEncode([sub |-> data.sub, name |-> data.name, uid |-> data.uid,
               exp |-> t + TokenTTL], SECRET_KEY, ALGORITHM)

(* ----------------------------- account store -------------------------- *)

RECURSIVE Matching(_, _)
\* The documents of the collection matching {"email": email}, in store order.
Matching(store, email) ==
    IF store = <<>> THEN <<>>
    ELSE IF Head(store).email = email
         THEN <<Head(store)>> \o Matching(Tail(store), email)
         ELSE Matching(Tail(store), email)

\* get_documents("account", {"email": email}, limit=1)
get_documents(store, email) ==
    LET m == Matching(store, email) IN IF m = <<>> THEN <<>> ELSE <<Head(m)>>

\* create_document("account", acc): the stored document, with its new _id.
create_document(acc, oid) ==
    [_id |-> oid, name |-> acc.name, email |-> acc.email,
     password_hash |-> acc.password_hash, avatar_url |-> acc.avatar_url,
     is_active |-> acc.is_active]

(* ------------------------------- state -------------------------------- *)

VARIABLES
    accounts,   \* the "account" collection, in insertion order
    nextId,     \* the identifier the store assigns next
    pc,         \* per worker: idle, or a signup between its check and its insert
    now,        \* the clock, in seconds
    issued,     \* tokens returned by login
    resp        \* the last response sent, with the request it answers

vars == <<accounts, nextId, pc, now, issued, resp>>

Idle == [state |-> "idle"]

Response(op, req, status, detail, body) ==
    [op |-> op, req |-> req, status |-> status, detail |-> detail, body |-> body]

Init ==
    /\ accounts = <<>>
    /\ nextId = 1
    /\ pc = [w \in Workers |-> Idle]
    /\ now = 0
    /\ issued = {}
    /\ resp = Response("none", NoBody, 0, "", NoBody)

(* ------------------------------- handlers ----------------------------- *)

credentials_exception ==
    [status |-> 401, detail |-> "Could not validate credentials", body |-> NoBody]

\* get_current_user without the test for a missing uid (variant for C5).
get_current_user_no_uid_check(store, token, t) ==
    IF JwtDecodeFails(token, SECRET_KEY, {ALGORITHM}, t) THEN credentials_exception
    ELSE IF token.claims.sub = None THEN credentials_exception
    ELSE LET users == get_documents(store, token.claims.sub) IN
         IF users = <<>> THEN credentials_exception
         ELSE [status |-> 200, detail |-> "",
               body |-> UserPublic(Str(users[1]._id), users[1].name, users[1].email)]

\* get_current_user answering with the payload's name, which the handler
\* reads and never uses (variant for C6).
get_current_user_name_from_token(store, token, t) ==
    IF JwtDecodeFails(token, SECRET_KEY, {ALGORITHM}, t) THEN credentials_exception
    ELSE IF token.claims.sub = None \/ token.claims.uid = None
         THEN credentials_exception
    ELSE LET users == get_documents(store, token.claims.sub) IN
         IF users = <<>> THEN credentials_exception
         ELSE [status |-> 200, detail |-> "",
               body |-> UserPublic(Str(users[1]._id), token.claims.name,
                                   users[1].email)]

\* get_current_user(token) at clock reading t: the dependency behind /auth/me.
get_current_user(store, token, t) ==
    IF JwtDecodeFails(token, SECRET_KEY, {ALGORITHM}, t) THEN credentials_exception
    ELSE IF token.claims.sub = None \/ token.claims.uid = None
         THEN credentials_exception
    ELSE LET users == get_documents(store, token.claims.sub) IN
         IF users = <<>> THEN credentials_exception
         ELSE [status |-> 200, detail |-> "",
               body |-> UserPublic(Str(users[1]._id), users[1].name, users[1].email)]

\* The existence check querying by the body's name (variant for C2).
signup_existing_by_name(store, body) == get_documents(store, body.name)

\* signup, first store operation: does a document with the body's email exist?
signup_existing(store, body) == get_documents(store, body.email)

\* signup, after the check passed: the document handed to the store.
signup_account(body, salt) ==
    Account(body.name, body.email, get_password_hash(body.password, salt))

\* signup answering with the parsed body next to the id (variant for C9).
signup_response_echo_body(new_id, body) ==
    [status |-> 200, detail |-> "",
     body |-> [id |-> new_id, name |-> body.name, email |-> body.email,
               password |-> body.password]]

\* signup's success response.
signup_response(new_id, body) ==
    [status |-> 200, detail |-> "", body |-> UserPublic(new_id, body.name, body.email)]

\* login telling a wrong password from an unknown email (variant for C3).
login_distinct_messages(store, username, password, t) ==
    LET users == get_documents(store, username) IN
    IF users = <<>>
    THEN [status |-> 400, detail |-> "Invalid email or password", body |-> NoBody]
    ELSE IF ~verify_password(password, users[1].password_hash)
    THEN [status |-> 400, detail |-> "Incorrect password", body |-> NoBody]
    ELSE [status |-> 200, detail |-> "",
          body |-> Token(create_access_token(
                      [sub |-> users[1].email, name |-> users[1].name,
                       uid |-> Str(users[1]._id)], t))]

\* login putting the form's username in the name claim (variant for C10).
login_name_from_form(store, username, password, t) ==
    LET users == get_documents(store, username) IN
    IF users = <<>>
    THEN [status |-> 400, detail |-> "Invalid email or password", body |-> NoBody]
    ELSE IF ~verify_password(password, users[1].password_hash)
    THEN [status |-> 400, detail |-> "Invalid email or password", body |-> NoBody]
    ELSE [status |-> 200, detail |-> "",
          body |-> Token(create_access_token(
                      [sub |-> users[1].email, name |-> username,
                       uid |-> Str(users[1]._id)], t))]

\* login(form_data) at clock reading t; username is used as received.
login(store, username, password, t) ==
    LET users == get_documents(store, username) IN
    IF users = <<>>
    THEN [status |-> 400, detail |-> "Invalid email or password", body |-> NoBody]
    ELSE IF ~verify_password(password, users[1].password_hash)
    THEN [status |-> 400, detail |-> "Invalid email or password", body |-> NoBody]
    ELSE [status |-> 200, detail |-> "",
          body |-> Token(create_access_token(
                      [sub |-> users[1].email, name |-> users[1].name,
                       uid |-> Str(users[1]._id)], t))]

\* Bearer strings a client can present besides the ones login returned: the
\* signing key has a published default, so well-signed claims of any content
\* are among them.
ForeignTokens ==
    {JwtEncode([sub |-> "ann@x.com", name |-> "Eve", uid |-> "0", exp |-> TokenTTL],
               SECRET_KEY, ALGORITHM),
     JwtEncode([sub |-> None, name |-> "Eve", uid |-> "0", exp |-> 2 * TokenTTL],
               SECRET_KEY, ALGORITHM),
     JwtEncode([sub |-> "ann@x.com", name |-> "Eve", uid |-> None, exp |-> 2 * TokenTTL],
               SECRET_KEY, ALGORITHM),
     JwtEncode([sub |-> "ann@x.com", name |-> "Eve", uid |-> "0", exp |-> 2 * TokenTTL],
               OtherKey, ALGORITHM),
     JwtEncode([sub |-> "ann@x.com", name |-> "Eve", uid |-> "0", exp |-> 2 * TokenTTL],
               SECRET_KEY, "none"),
     Malformed}

(* ------------------------------- actions ------------------------------ *)

\* POST /auth/signup, up to and including the existence check.
SignupCheck(w, raw) ==
    /\ pc[w].state = "idle"
    /\ IF signup_existing(accounts, SignUpBody(raw)) # <<>>
       THEN /\ resp' = Response("signup", raw, 400, "Email already registered", NoBody)
            /\ UNCHANGED pc
       ELSE /\ pc' = [pc EXCEPT ![w] = [state |-> "checked", raw |-> raw]]
            /\ UNCHANGED resp
    /\ UNCHANGED <<accounts, nextId, now, issued>>

\* The insert refused when the email has appeared since the check, as under
\* a unique index (variant for C7).
SignupInsert_rechecked(w) ==
    /\ pc[w].state = "checked"
    /\ LET body == SignUpBody(pc[w].raw)
           doc == create_document(signup_account(body, FreshSalt(nextId)), nextId)
           r == signup_response(Str(doc._id), body)
       IN IF get_documents(accounts, body.email) # <<>>
          THEN /\ resp' = Response("signup", pc[w].raw, 400,
                                   "Email already registered", NoBody)
               /\ UNCHANGED <<accounts, nextId>>
          ELSE /\ accounts' = Append(accounts, doc)
               /\ nextId' = nextId + 1
               /\ resp' = Response("signup", pc[w].raw, r.status, r.detail, r.body)
    /\ pc' = [pc EXCEPT ![w] = Idle]
    /\ UNCHANGED <<now, issued>>

\* POST /auth/signup, from the hash to the response.
SignupInsert(w) ==
    /\ pc[w].state = "checked"
    /\ LET body == SignUpBody(pc[w].raw)
           doc == create_document(signup_account(body, FreshSalt(nextId)), nextId)
           r == signup_response(Str(doc._id), body)
       IN /\ accounts' = Append(accounts, doc)
          /\ nextId' = nextId + 1
          /\ resp' = Response("signup", pc[w].raw, r.status, r.detail, r.body)
    /\ pc' = [pc EXCEPT ![w] = Idle]
    /\ UNCHANGED <<now, issued>>

\* login re-hashing the stored password on success (variant for C8).
Login_rehash(username, password) ==
    LET r == login(accounts, username, password, now) IN
    /\ r.status = 200 =>
          \/ r.body.access_token \in issued
          \/ Cardinality(issued) < MaxTokens
    /\ issued' = IF r.status = 200 THEN issued \cup {r.body.access_token} ELSE issued
    /\ resp' = Response("login", [username |-> username, password |-> password],
                        r.status, r.detail, r.body)
    /\ accounts' =
          IF r.status = 200
          THEN [i \in 1..Len(accounts) |->
                  IF accounts[i].email = username
                  THEN [accounts[i] EXCEPT !.password_hash =
                           get_password_hash(password, FreshSalt(0))]
                  ELSE accounts[i]]
          ELSE accounts
    /\ UNCHANGED <<nextId, pc, now>>

\* POST /auth/login
Login(username, password) ==
    LET r == login(accounts, username, password, now) IN
    /\ r.status = 200 =>
          \/ r.body.access_token \in issued
          \/ Cardinality(issued) < MaxTokens
    /\ issued' = IF r.status = 200 THEN issued \cup {r.body.access_token} ELSE issued
    /\ resp' = Response("login", [username |-> username, password |-> password],
                        r.status, r.detail, r.body)
    /\ UNCHANGED <<accounts, nextId, pc, now>>

\* GET /auth/me
Me(token) ==
    LET r == get_current_user(accounts, token, now) IN
    /\ resp' = Response("me", token, r.status, r.detail, r.body)
    /\ UNCHANGED <<accounts, nextId, pc, now, issued>>

\* GET /
ReadRoot ==
    /\ resp' = Response("root", NoBody, 200, "",
                        [message |-> "Hello from FastAPI Backend!"])
    /\ UNCHANGED <<accounts, nextId, pc, now, issued>>

\* GET /api/hello
Hello ==
    /\ resp' = Response("hello", NoBody, 200, "",
                        [message |-> "Hello from the backend API!"])
    /\ UNCHANGED <<accounts, nextId, pc, now, issued>>

\* GET /test; listing the collections may fail, which the handler reports
\* in the response instead of failing.
TestDatabase ==
    /\ \E listed \in BOOLEAN :
         LET url == IF DATABASE_URL # None THEN "Set" ELSE "Not Set" IN
         resp' = Response("test", NoBody, 200, "",
                    IF db = None
                    THEN [backend |-> "Running",
                          database |-> "Available but not initialized",
                          database_url |-> None, database_name |-> None,
                          connection_status |-> "Not Connected",
                          collections |-> <<>>]
                    ELSE IF listed
                    THEN [backend |-> "Running",
                          database |-> "Connected & Working",
                          database_url |-> url, database_name |-> db,
                          connection_status |-> "Connected",
                          collections |-> IF accounts = <<>> THEN <<>>
                                          ELSE <<"account">>]
                    ELSE [backend |-> "Running",
                          database |-> "Connected but Error",
                          database_url |-> url, database_name |-> db,
                          connection_status |-> "Connected",
                          collections |-> <<>>])
    /\ UNCHANGED <<accounts, nextId, pc, now, issued>>

\* The clock advances.
Tick(t) ==
    /\ t > now
    /\ now' = t
    /\ UNCHANGED <<accounts, nextId, pc, issued, resp>>

Next ==
    \/ \E w \in Workers, raw \in SignUpRequests : SignupCheck(w, raw)
    \/ \E w \in Workers : SignupInsert(w)
    \/ \E e \in Emails, p \in Passwords : Login(e, p)
    \/ \E token \in issued \cup ForeignTokens : Me(token)
    \/ ReadRoot
    \/ Hello
    \/ TestDatabase
    \/ \E t \in Instants : Tick(t)

Spec == Init /\ [][Next]_vars

(* ------------------------------- claims ------------------------------ *)

\* Whether the collection holds a document with this exact email.
HasAccount(store, email) == \E i \in 1..Len(store) : store[i].email = email

\* The position of the first document with this email (0 when there is none).
FirstIndex(store, email) ==
    IF HasAccount(store, email)
    THEN CHOOSE i \in 1..Len(store) :
            /\ store[i].email = email
            /\ \A j \in 1..(i - 1) : store[j].email # email
    ELSE 0

PresentableTokens == issued \cup ForeignTokens

\* C1: once a signup has succeeded, a login with the email and password that
\* were submitted to it succeeds, and the token's subject is that email.
C1_SignupThenLogin ==
    (resp.op = "signup" /\ resp.status = 200) =>
        LET r == login(accounts, resp.req.email, resp.req.password, now) IN
        /\ r.status = 200
        /\ r.body.access_token.claims.sub = resp.req.email

\* C2: a signup whose email already has an account is answered 400 "Email
\* already registered", and neither the collection nor any pending signup
\* changes: the request never reaches the insert.
C2_DuplicateSignupRejected ==
    [][\A w \in Workers, raw \in SignUpRequests :
         (SignupCheck(w, raw) /\ HasAccount(accounts, EmailStr(raw.email))) =>
            /\ resp' = Response("signup", raw, 400, "Email already registered", NoBody)
            /\ accounts' = accounts
            /\ pc' = pc]_vars

C2_Witness ==
    /\ resp.op = "signup"
    /\ resp.status = 400
    /\ resp.req.email = "ann@X.COM"
    /\ HasAccount(accounts, "ann@x.com")
    /\ Len(accounts) = 1

\* C3: in every store state, a login against an existing email with a password
\* that does not verify and a login against an email with no account get the
\* same outcome: 400, "Invalid email or password", no token.
C3_LoginIndistinguishable ==
    \A e1 \in Emails, e2 \in Emails, p \in Passwords :
        (/\ HasAccount(accounts, e1)
         /\ ~verify_password(p, accounts[FirstIndex(accounts, e1)].password_hash)
         /\ ~HasAccount(accounts, e2)) =>
            /\ login(accounts, e1, p, now) = login(accounts, e2, p, now)
            /\ login(accounts, e1, p, now) =
                  [status |-> 400, detail |-> "Invalid email or password",
                   body |-> NoBody]

C3_Witness ==
    /\ resp.op = "login"
    /\ resp.status = 400
    /\ HasAccount(accounts, resp.req.username)
    /\ \E e2 \in Emails : ~HasAccount(accounts, e2)

\* C4: a token that login issued, presented to /auth/me when the clock is at
\* or past its exp, is answered 401.
C4_RejectedAtOrAfterExpiry ==
    [][\A token \in issued :
         (Me(token) /\ now >= token.claims.exp) => resp'.status = 401]_vars

\* The cases in which /auth/me must refuse, spelled out.
MustRefuse(store, token, t) ==
    \/ ~token.wf
    \/ token.alg # "HS256"
    \/ token.key # SECRET_KEY
    \/ token.claims.exp < t
    \/ token.claims.sub = None
    \/ token.claims.uid = None
    \/ ~HasAccount(store, token.claims.sub)

\* C5: /auth/me answers 401 "Could not validate credentials" when the token
\* does not decode, when its claims lack sub or uid, or when the collection
\* holds no account with the subject email at the time of the request; in
\* every other case it answers 200.
C5_UnauthenticatedCases ==
    [][\A token \in PresentableTokens :
         Me(token) =>
            IF MustRefuse(accounts, token, now)
            THEN /\ resp'.status = 401
                 /\ resp'.detail = "Could not validate credentials"
                 /\ resp'.body = NoBody
            ELSE resp'.status = 200]_vars

\* A decodable, unexpired token with both claims, refused because the store
\* holds no account for its subject.
C5_Witness ==
    /\ resp.op = "me"
    /\ resp.status = 401
    /\ resp.req.wf
    /\ resp.req.alg = ALGORITHM
    /\ resp.req.key = SECRET_KEY
    /\ resp.req.claims.exp > now
    /\ resp.req.claims.sub # None
    /\ resp.req.claims.uid # None
    /\ ~HasAccount(accounts, resp.req.claims.sub)

\* C6: a successful /auth/me returns the id (as a string), name and email of
\* the first stored account with the token's subject email, whatever the
\* token's name and uid claims say.
C6_ProfileFromRecord ==
    [][\A token \in PresentableTokens :
         (Me(token) /\ resp'.status = 200) =>
            LET i == FirstIndex(accounts, token.claims.sub) IN
            /\ i > 0
            /\ resp'.body = [id |-> ToString(accounts[i]._id),
                             name |-> accounts[i].name,
                             email |-> accounts[i].email]]_vars

\* /auth/me succeeded for a token whose name and uid are not the record's.
C6_Witness ==
    /\ resp.op = "me"
    /\ resp.status = 200
    /\ resp.req.claims.name # resp.body.name
    /\ resp.req.claims.uid # resp.body.id

C8_AccountsFrame ==
    [][/\ (\/ \E e \in Emails, p \in Passwords : Login(e, p)
           \/ \E token \in PresentableTokens : Me(token)
           \/ ReadRoot
           \/ Hello
           \/ TestDatabase
           \/ \E w \in Workers, raw \in SignUpRequests : SignupCheck(w, raw))
             => accounts' = accounts
       /\ \A w \in Workers :
             SignupInsert(w) =>
                /\ Len(accounts') = Len(accounts) + 1
                /\ SubSeq(accounts', 1, Len(accounts)) = accounts
                /\ resp'.op = "signup"
                /\ resp'.status = 200
       /\ accounts' # accounts => \E w \in Workers : SignupInsert(w)]_vars

C8_Witness ==
    /\ Len(accounts) >= 2
    /\ resp.op = "login"
    /\ resp.status = 200
    /\ issued # {}

\* Every stored digest and every password a client may submit.
Secrets ==
    {accounts[i].password_hash.digest : i \in 1..Len(accounts)} \cup Passwords

\* C9: a signup response and an /auth/me response carry exactly id, name and
\* email, a login response exactly the token and its type, the token's claims
\* exactly sub, name, uid and exp; none of these values is a stored digest or
\* a password.
C9_NoSecretReturned ==
    /\ (resp.op \in {"signup", "me"} /\ resp.status = 200) =>
          /\ DOMAIN resp.body = {"id", "name", "email"}
          /\ \A f \in DOMAIN resp.body : resp.body[f] \notin Secrets
    /\ (resp.op = "login" /\ resp.status = 200) =>
          /\ DOMAIN resp.body = {"access_token", "token_type"}
          /\ DOMAIN resp.body.access_token.claims = {"sub", "name", "uid", "exp"}
          /\ \A f \in {"sub", "name", "uid"} :
                resp.body.access_token.claims[f] \notin Secrets
    /\ resp.status \notin {0, 200} => resp.body = NoBody

C9_Witness ==
    /\ resp.op = "login"
    /\ resp.status = 200
    /\ Len(accounts) >= 1
    /\ accounts[1].password_hash.digest \in Secrets

\* C10: a token returned by login and presented before its expiry is accepted
\* by /auth/me, and the profile returned is the token's uid, name and sub,
\* duplicates of the email in the collection included.
C10_IssuedTokenResolves ==
    \A token \in issued :
        now < token.claims.exp =>
            get_current_user(accounts, token, now) =
                [status |-> 200, detail |-> "",
                 body |-> [id |-> token.claims.uid, name |-> token.claims.name,
                           email |-> token.claims.sub]]

\* An issued token resolved while its email is held by two accounts.
C10_Witness ==
    /\ resp.op = "me"
    /\ resp.status = 200
    /\ resp.req \in issued
    /\ now < resp.req.claims.exp
    /\ \E i \in 1..Len(accounts), j \in 1..Len(accounts) :
          i < j /\ accounts[i].email = resp.req.claims.sub
                /\ accounts[j].email = resp.req.claims.sub

====
